---- MODULE Spec2Model ----
(***************************************************************************)
(* Model of the RideData application component (App): file drop and FIT    *)
(* record normalisation, the DEM elevation fetch run                       *)
(* (handleFetchDemElevation) and the alignment of the fetched DEM series   *)
(* onto the chart rows (getDisplayData).                                   *)
(*                                                                         *)
(* Units.  Numbers of the program are floating point; the model keeps them *)
(* as integers of a fixed unit so that the roundings of the code are real  *)
(* operations:                                                             *)
(*   raw distance        metres     chart distance   0.01 km (toFixed(2))  *)
(*   raw timestamp       seconds    chart time       milliseconds          *)
(*   elevations          millimetres (toFixed(2) rounds to 10 mm)          *)
(*   latitude/longitude  2^-31 degrees (semicircles * 180)                 *)
(* An optional (null / undefined) field is <<>>, a present one is <<v>>.   *)
(***************************************************************************)
EXTENDS Integers, Sequences, FiniteSets, TLC

\* ---------------------------------------------------------------- bounds
\* Files dropped plus fetch runs started in one behaviour: two drops and a
\* run (a drop during a run), or one drop and two runs (a refetch).
MaxEvents == 3
\* Runs the model can hold in flight at once (what the program admits is
\* decided by the fetch button, not by this bound).
MaxActive == 2
\* Record messages in a decoded file, in the specification that ranges over
\* all decoded files (NormSpec).
MaxRecords == 3
\* Points per batch request of the batch provider.  The program's value is
\* 100 (const batchSize); the model scales it down so that a three point
\* series needs more than one batch.
batchSize == 2

\* ------------------------------------------------------------ primitives
Absent == <<>>
Some(v) == <<v>>
IsPresent(o) == o # <<>>
Val(o) == o[1]

Min(a, b) == IF a <= b THEN a ELSE b

\* Number.prototype.toFixed followed by parseFloat: x / unit rounded to the
\* nearest integer, halves away from zero.
RoundDiv(x, unit) ==
    IF x >= 0 THEN (2 * x + unit) \div (2 * unit)
    ELSE -(((2 * (-x)) + unit) \div (2 * unit))

\* parseFloat(x.toFixed(2)) of a value kept in thousandths: a multiple of 10.
ToFixed2Milli(x) == RoundDiv(x, 10) * 10

\* A JavaScript value, of a response body or of a decoded message: t is its
\* type; n is the number (in thousandths) or the boolean (0, 1), s the
\* string, or the instant of a Date.
JsNum(n) == [t |-> "number", n |-> n, s |-> ""]
JsStr(s) == [t |-> "string", n |-> 0, s |-> s]
JsUndefined == [t |-> "undefined", n |-> 0, s |-> ""]
JsNull == [t |-> "null", n |-> 0, s |-> ""]
JsDate(s) == [t |-> "date", n |-> 0, s |-> s]

\* ------------------------------------------------- static configuration
\* DEM_SOURCES: provider id -> display name.
DEM_SOURCES ==
    [usgs |-> [id |-> "usgs", name |-> "USGS EPQS (USA)"],
     opentopo |-> [id |-> "opentopo", name |-> "OpenTopography (Global)"]]

DemSourceIds == DOMAIN DEM_SOURCES

\* -1000000 metres, the provider's no-data value, in millimetres.
NoDataValue == -1000000000

\* const semicirclesToDegrees
semicirclesToDegrees(semicircles) ==
    IF semicircles = Absent THEN Absent ELSE Some(Val(semicircles) * 180)

\* ------------------------------------------------------ session summary
\* getDisplayFields(): the keys of the display table, in the order of the
\* object literal.
DisplayKeys ==
    <<"startTime", "totalElapsedTime", "totalTimerTime", "totalDistance",
      "avgSpeed", "maxSpeed", "totalAscent", "totalDescent", "minAltitude",
      "avgAltitude", "maxAltitude", "avgHeartRate", "maxHeartRate",
      "avgCadence", "maxCadence", "avgPower", "maxPower", "totalCalories",
      "normalizedPower", "avgTemperature", "maxTemperature">>

\* The fields of a session message the program reads: those of the table
\* and timestamp.
SessionKeys == {DisplayKeys[i] : i \in 1..Len(DisplayKeys)} \cup {"timestamp"}

\* A decoded session message with the given start time, elapsed and timer
\* time (seconds), distance (metres) and average heart rate, and no other
\* field.
SessionMesg(startTime, totalElapsedTime, totalTimerTime, totalDistance, avgHeartRate) ==
    [k \in SessionKeys |->
        CASE k = "startTime" -> startTime
          [] k = "totalElapsedTime" -> totalElapsedTime
          [] k = "totalTimerTime" -> totalTimerTime
          [] k = "totalDistance" -> totalDistance
          [] k = "avgHeartRate" -> avgHeartRate
          [] OTHER -> JsUndefined]

\* The session of the files of DroppedFiles: 4 h 59 min 17 s, 1 m.
RideSession ==
    SessionMesg(JsStr("2024-05-01T10:00:00Z"), JsNum(17957000), JsNum(17000500),
                JsNum(1000), JsNum(142000))

\* const currentSession = { ...sessions[0] } with timestamp and startTime
\* turned into Dates when they are non-empty strings.
currentSession(session) ==
    [k \in DOMAIN session |->
        IF k \in {"timestamp", "startTime"} /\ session[k].t = "string" /\ session[k].s # ""
        THEN JsDate(session[k].s)
        ELSE session[k]]

\* ------------------------------------------------------ decoded records
RawRecord(ts, d, ed, lat, lon, alt, ealt) ==
    [timestamp |-> ts, distance |-> d, enhancedDistance |-> ed,
     positionLat |-> lat, positionLong |-> lon,
     altitude |-> alt, enhancedAltitude |-> ealt]

\* A record with a timestamp, a distance and a position.
PosRecord(ts, d, lat, lon) ==
    RawRecord(Some(ts), Some(d), Absent, Some(lat), Some(lon), Some(296400), Absent)

\* A record with a timestamp and a distance but no position.
NoPosRecord(ts, d) ==
    RawRecord(Some(ts), Some(d), Absent, Absent, Absent, Some(296400), Absent)

\* What the user drops: whether the dropzone accepted it, whether its name
\* ends in .fit, what the decoder says of it, and the record messages and
\* the session messages in it.
SessionFile(accepted, fitName, isFIT, integrity, throws, records, sessions) ==
    [accepted |-> accepted, fitName |-> fitName, isFIT |-> isFIT,
     integrity |-> integrity, throws |-> throws, recordMesgs |-> records,
     sessionMesgs |-> sessions]

\* A file without a session message.
File(accepted, fitName, isFIT, integrity, throws, records) ==
    SessionFile(accepted, fitName, isFIT, integrity, throws, records, <<>>)

\* A file that decodes, with one session message.
GoodFile(records) ==
    SessionFile(TRUE, TRUE, TRUE, TRUE, FALSE, records, <<RideSession>>)

\* Three positioned records; the first two are 4 m apart, so their chart
\* distances round to the same 0.00 km.
FileCloseDistances ==
    GoodFile(<<PosRecord(10, 0, 100, -200), PosRecord(11, 4, 101, -200),
               PosRecord(12, 12, 102, -200)>>)

\* Records out of timestamp order, the last one without a position.
FileOutOfOrder ==
    GoodFile(<<PosRecord(21, 30, 110, -210), PosRecord(20, 0, 111, -210),
               NoPosRecord(22, 60)>>)

\* Two positioned records carrying the same timestamp.
FileSameTimestamp ==
    GoodFile(<<PosRecord(30, 0, 120, -220), PosRecord(30, 20, 121, -220)>>)

FileNoPosition == GoodFile(<<NoPosRecord(40, 0), NoPosRecord(41, 10)>>)

FileUnusable ==
    File(TRUE, TRUE, TRUE, TRUE, FALSE,
         <<RawRecord(Absent, Some(0), Absent, Absent, Absent, Absent, Absent),
           RawRecord(Some(5), Absent, Absent, Absent, Absent, Absent, Absent)>>)

FileNoRecords == GoodFile(<<>>)

DroppedFiles ==
    {FileCloseDistances, FileOutOfOrder, FileSameTimestamp, FileNoPosition,
     FileUnusable, FileNoRecords,
     File(FALSE, TRUE, TRUE, TRUE, FALSE, <<>>),
     File(TRUE, FALSE, TRUE, TRUE, FALSE, <<>>),
     File(TRUE, TRUE, FALSE, TRUE, FALSE, <<>>),
     File(TRUE, TRUE, TRUE, FALSE, FALSE, <<>>),
     File(TRUE, TRUE, TRUE, TRUE, TRUE, <<>>)}

\* ------------------------------------------------------- normalisation
\* Fault: a record is kept only if it carries an altitude as well.
HasTimestampDistanceAndAltitude(r) ==
    /\ IsPresent(r.timestamp)
    /\ (IsPresent(r.distance) \/ IsPresent(r.enhancedDistance))
    /\ IsPresent(r.altitude)

\* records.filter(r => r.timestamp != null &&
\*                     (r.distance != null || r.enhancedDistance != null))
HasTimestampAndDistance(r) ==
    /\ IsPresent(r.timestamp)
    /\ (IsPresent(r.distance) \/ IsPresent(r.enhancedDistance))

recordsWithDistance(records) == SelectSeq(records, HasTimestampAndDistance)

\* Fault: the records are left in the order the decoder gave them.
unsorted(s) == s

\* Array.prototype.sort with (a, b) => a.timestamp - b.timestamp: stable.
RECURSIVE InsertByTimestamp(_, _)
InsertByTimestamp(r, sorted) ==
    IF sorted = <<>> THEN <<r>>
    ELSE IF Val(r.timestamp) < Val(Head(sorted).timestamp)
         THEN <<r>> \o sorted
         ELSE <<Head(sorted)>> \o InsertByTimestamp(r, Tail(sorted))

RECURSIVE SortByTimestamp(_)
SortByTimestamp(s) ==
    IF s = <<>> THEN <<>>
    ELSE InsertByTimestamp(s[Len(s)], SortByTimestamp(SubSeq(s, 1, Len(s) - 1)))

\* record.distance != null ? parseFloat((record.distance / 1000).toFixed(2))
\*   : (record.enhancedDistance != null ? ... : 0)        in units of 0.01 km
ChartDistance(record) ==
    IF IsPresent(record.distance) THEN RoundDiv(Val(record.distance), 10)
    ELSE IF IsPresent(record.enhancedDistance)
         THEN RoundDiv(Val(record.enhancedDistance), 10)
         ELSE 0

\* The altitude field of a dataEntry: set only when record.altitude is.
ChartAltitude(record) ==
    IF IsPresent(record.altitude)
    THEN IF IsPresent(record.enhancedAltitude)
         THEN Some(ToFixed2Milli(Val(record.enhancedAltitude)))
         ELSE Some(ToFixed2Milli(Val(record.altitude)))
    ELSE Absent

\* Fault: the time of an entry is not taken relative to the first timestamp.
dataEntryAbsoluteTime(record, firstTimestamp, file, idx) ==
    [time |-> Val(record.timestamp) * 1000,
     distance |-> ChartDistance(record),
     timestamp |-> Val(record.timestamp),
     latitude |-> semicirclesToDegrees(record.positionLat),
     longitude |-> semicirclesToDegrees(record.positionLong),
     altitude |-> ChartAltitude(record),
     file |-> file, idx |-> idx]

\* The dataEntry built for one record.  file and idx are not fields of the
\* program's object: they record which drop and which row the entry is, so
\* that properties can tell one point from another with equal fields.
dataEntry(record, firstTimestamp, file, idx) ==
    [time |-> (Val(record.timestamp) - firstTimestamp) * 1000,
     distance |-> ChartDistance(record),
     timestamp |-> Val(record.timestamp),
     latitude |-> semicirclesToDegrees(record.positionLat),
     longitude |-> semicirclesToDegrees(record.positionLong),
     altitude |-> ChartAltitude(record),
     file |-> file, idx |-> idx]

processedData(records, file) ==
    LET sorted == SortByTimestamp(recordsWithDistance(records))
    IN [k \in 1..Len(sorted) |->
            dataEntry(sorted[k], Val(sorted[1].timestamp), file, k)]

HasCoords(p) == IsPresent(p.latitude) /\ IsPresent(p.longitude)

\* chartSourceData.filter(p => p.latitude != null && p.longitude != null)
pointsWithCoords(data) == SelectSeq(data, HasCoords)


\* ------------------------------------------------- provider responses
\* Elevations the providers answer with, in millimetres.
Elevations == {4, 1236}

\* The value field of a single-point answer.
UsgsValues ==
    {JsNum(e) : e \in Elevations}
        \cup {JsNum(NoDataValue), JsUndefined, JsNull, JsStr(""), JsStr("n/a")}

\* What fetch(apiUrl) and response.json() give for one single-point request:
\* fetch rejects, a non-success status, a body that is no JSON, or a JSON
\* body with a value field.
UsgsResponses ==
    {[kind |-> k, value |-> JsUndefined] : k \in {"reject", "status", "nojson"}}
        \cup {[kind |-> "json", value |-> v] : v \in UsgsValues}

\* Number(x) of ECMAScript: NaN is [nan |-> TRUE].
NaN == [nan |-> TRUE, n |-> 0]
Num(n) == [nan |-> FALSE, n |-> n]
Number(x) ==
    CASE x.t = "number" -> Num(x.n)
      [] x.t = "undefined" -> NaN
      [] x.t = "null" -> Num(0)
      [] x.t = "boolean" -> Num(x.n * 1000)
      [] x.t = "string" -> IF x.s = "" THEN Num(0) ELSE NaN

\* !isNaN(elevation) && elevation !== -1000000
UsgsElevationValid(elevation) ==
    ~elevation.nan /\ elevation.n # NoDataValue

\* What the provider interface means by an answer that carries data: the
\* value is a number and is not the no-data value.
UsgsAnswerHasData(resp) ==
    /\ resp.kind = "json"
    /\ resp.value.t = "number"
    /\ resp.value.n # NoDataValue

\* The results array of a batch answer of len entries: each elevation is
\* null or a number.
RECURSIVE SeqsOf(_, _)
SeqsOf(S, len) ==
    IF len = 0 THEN {<<>>}
    ELSE {Append(q, x) : q \in SeqsOf(S, len - 1), x \in S}

ResultElevations == {Absent} \cup {Some(e) : e \in Elevations}

\* What fetch and response.json() give for one batch request of len points.
OpenTopoResponses(len) ==
    {[kind |-> k, status |-> "", results |-> <<>>] :
         k \in {"reject", "status", "nojson"}}
        \cup {[kind |-> "json", status |-> "INVALID_REQUEST", results |-> <<>>]}
        \cup {[kind |-> "json", status |-> "OK", results |-> r] :
                  r \in SeqsOf(ResultElevations, len)}


\* ---------------------------------------------------------------- state
VARIABLES
    chartSourceData,      \* useState([]): the canonical series
    error,                \* useState(null): "" is null
    isLoading,            \* useState(false)
    fileName,             \* useState('')
    sessionData,          \* useState(null): Absent is null
    fitAvailableFields,   \* useState([])
    selectedFields,       \* useState(['altitude'])
    selectedDemSourceId,  \* useState(Object.keys(DEM_SOURCES)[0])
    demDataSets,          \* useState({}): provider id -> [data, name, ...]
    isFetchingDem,        \* useState(false)
    demFetchProgress,     \* useState({ current: 0, total: 0 })
    demError,             \* useState(null): Absent is null
    readers,              \* FileReaders whose read has not completed yet
    runs,                 \* invocations of handleFetchDemElevation in flight
    drops,                \* history: files dropped so far
    started,              \* history: fetch runs started so far
    justFinished,         \* history: the run the last step completed, if any
    loaded                \* history: the reader whose onload the last step ran, if any

\* isMetric (useState(false)) is read by the rendering functions alone; they
\* take it as a parameter and the properties cover both of its values.

fileVars == <<chartSourceData, error, isLoading, fileName, sessionData,
              fitAvailableFields, selectedFields, readers, drops>>
demVars == <<demDataSets, isFetchingDem, demFetchProgress, demError, runs, started>>
vars == <<chartSourceData, error, isLoading, fileName, sessionData,
          fitAvailableFields, selectedFields, selectedDemSourceId, demDataSets, isFetchingDem,
          demFetchProgress, demError, readers, runs, drops, started, justFinished,
          loaded>>

Init ==
    /\ chartSourceData = <<>>
    /\ error = ""
    /\ isLoading = FALSE
    /\ fileName = ""
    /\ sessionData = Absent
    /\ fitAvailableFields = <<>>
    /\ selectedFields = <<"altitude">>
    /\ selectedDemSourceId = "usgs"
    /\ demDataSets = <<>>
    /\ isFetchingDem = FALSE
    /\ demFetchProgress = [current |-> 0, total |-> 0]
    /\ demError = Absent
    /\ readers = <<>>
    /\ runs = <<>>
    /\ drops = 0
    /\ started = 0
    /\ justFinished = Absent
    /\ loaded = Absent

RemoveAt(q, k) == SubSeq(q, 1, k - 1) \o SubSeq(q, k + 1, Len(q))

\* ------------------------------------------------------------ file drop
\* onDrop(acceptedFiles): the synchronous part, up to reader.readAsArrayBuffer.
onDrop(file) ==
    /\ drops + started < MaxEvents
    /\ drops' = drops + 1
    /\ demError' = Absent
    /\ chartSourceData' = <<>>
    /\ sessionData' = Absent
    /\ fitAvailableFields' = <<>>
    /\ selectedFields' = <<"altitude">>
    /\ demDataSets' = <<>>
    /\ IF ~file.accepted
       THEN /\ error' = "No file selected or file type not accepted."
            /\ isLoading' = FALSE
            /\ fileName' = ""
            /\ readers' = readers
       ELSE IF ~file.fitName
       THEN /\ error' = "Invalid file type. Please upload a .FIT file."
            /\ isLoading' = FALSE
            /\ fileName' = "notes.txt"
            /\ readers' = readers
       ELSE /\ error' = ""
            /\ isLoading' = TRUE
            /\ fileName' = "ride.fit"
            /\ readers' = Append(readers, [file |-> file, drop |-> drops + 1])
    /\ justFinished' = Absent
    /\ loaded' = Absent
    /\ UNCHANGED <<selectedDemSourceId, isFetchingDem, demFetchProgress,
                   runs, started>>

\* Object.keys(FIT_FIELDS_CONFIG).filter(fieldKey => firstPoint[fieldKey] != null);
\* altitude is the one plottable field the records of the model carry.
foundFields(firstPoint) ==
    IF IsPresent(firstPoint.altitude) THEN <<"altitude">> ELSE <<>>

\* Fault: the file without a usable record is dropped without a word.
noUsableRecordsUnreported ==
    /\ chartSourceData' = <<>>
    /\ fitAvailableFields' = <<>>
    /\ selectedFields' = <<"altitude">>
    /\ error' = error
    /\ isLoading' = FALSE

\* if (recordsWithDistance.length === 0) { ...; return; }
noUsableRecords ==
    /\ chartSourceData' = <<>>
    /\ fitAvailableFields' = <<>>
    /\ selectedFields' = <<"altitude">>
    /\ error' = "No records with timestamp and distance found to create a chart."
    /\ isLoading' = FALSE

\* sessions.length > 0 ? setSessionData(currentSession) : setSessionData(null)
decodedSession(sessions) ==
    IF Len(sessions) > 0 THEN Some(currentSession(sessions[1])) ELSE Absent

\* reader.onload of the k-th pending reader.
readerOnLoad(k) ==
    /\ k \in 1..Len(readers)
    /\ LET file == readers[k].file
           usable == recordsWithDistance(file.recordMesgs)
           data == processedData(file.recordMesgs, readers[k].drop)
       IN /\ sessionData' = IF file.isFIT /\ file.integrity /\ ~file.throws
                            THEN decodedSession(file.sessionMesgs)
                            ELSE sessionData
          /\ IF ~file.isFIT
             THEN /\ error' = "File is not a valid FIT file (invalid header)."
                  /\ isLoading' = FALSE
                  /\ UNCHANGED <<chartSourceData, fitAvailableFields, selectedFields>>
             ELSE IF ~file.integrity
             THEN /\ error' = "File integrity check failed (CRC errors). Processing halted."
                  /\ isLoading' = FALSE
                  /\ UNCHANGED <<chartSourceData, fitAvailableFields, selectedFields>>
             ELSE IF file.throws
             THEN /\ error' = "An unexpected error occurred during decoding"
                  /\ isLoading' = FALSE
                  /\ UNCHANGED <<chartSourceData, fitAvailableFields, selectedFields>>
             ELSE IF Len(usable) = 0
             THEN noUsableRecords
             ELSE /\ chartSourceData' = data
                  /\ fitAvailableFields' = foundFields(data[1])
                  /\ selectedFields' = foundFields(data[1])
                  /\ UNCHANGED <<error, isLoading>>
    /\ readers' = RemoveAt(readers, k)
    /\ justFinished' = Absent
    /\ loaded' = Some(readers[k])
    /\ UNCHANGED <<fileName, selectedDemSourceId, drops>>
    /\ UNCHANGED demVars

\* reader.onerror of the k-th pending reader.
readerOnError(k) ==
    /\ k \in 1..Len(readers)
    /\ error' = "Failed to read the file using FileReader"
    /\ isLoading' = FALSE
    /\ readers' = RemoveAt(readers, k)
    /\ justFinished' = Absent
    /\ loaded' = Absent
    /\ UNCHANGED <<chartSourceData, fileName, sessionData, fitAvailableFields,
                   selectedFields, selectedDemSourceId, drops>>
    /\ UNCHANGED demVars


\* ------------------------------------------------------------ DEM fetch
\* The DEM controls are rendered when chartSourceData has a point with
\* latitude and longitude.
DemControlsRendered ==
    \E k \in 1..Len(chartSourceData) : HasCoords(chartSourceData[k])

\* Fault: the button is not disabled while a fetch is running.
FetchButtonIgnoresFetching == selectedDemSourceId = ""

\* disabled={isFetchingDem || !selectedDemSourceId}
FetchButtonDisabled == isFetchingDem \/ selectedDemSourceId = ""

\* The messages setDemError is given.
DemMessage(kind, name, s, n) == Some([kind |-> kind, name |-> name, s |-> s, n |-> n])

Coords(p) == [latitude |-> Val(p.latitude), longitude |-> Val(p.longitude)]

\* pointsWithCoords.slice(i, i + batchSize), i counted from 0.
Batch(points, i) == SubSeq(points, i + 1, Min(i + batchSize, Len(points)))

\* Fault: the batch loop steps over one point between two batches.
NextBatchStartSkipsPoint(i) == i + batchSize + 1

\* The step of the batch loop: i += batchSize.
NextBatchStart(i) == i + batchSize

\* The locals of one invocation that has passed validation.  The fields from
\* requests on are not locals of the program: requests logs the coordinates
\* put in every URL handed to fetch, answers whether the provider's answer
\* for each point carried an elevation and results which one (in
\* millimetres), drop is the number of files dropped when the run started,
\* delays counts the timers of the run that have fired and settled the fetch
\* promises that have settled.
NewRun(sourceId, points) ==
    [sourceId |-> sourceId, points |-> points, i |-> 0, pc |-> "delay",
     stalled |-> FALSE, fetchedDemPoints |-> <<>>, successfulFetches |-> 0,
     requests |-> <<>>, answers |-> <<>>, results |-> <<>>, drop |-> drops,
     delays |-> 0, settled |-> 0]

\* Fault: the loops stop one point early.
loopStopsEarly(i, total) == i < total - 1

\* The condition of both for loops: i < pointsWithCoords.length.
loopGoesOn(i, total) == i < total

\* Fault: no batch waits for the delay.
noDelayBeforeBatch(i) == FALSE

\* if (i > 0) await new Promise(resolve => setTimeout(resolve, 200))
delayBeforeBatch(i) == i > 0

\* The run at the first await of a loop iteration: the per-point loop awaits
\* its 50 ms delay; the batch loop awaits its 200 ms delay, or, when it
\* skips the delay, fetch(apiUrl).
AtNextAwait(run) ==
    IF run.sourceId = "usgs" \/ delayBeforeBatch(run.i)
    THEN [run EXCEPT !.pc = "delay"]
    ELSE [run EXCEPT !.pc = "fetch",
                     !.requests = Append(@, [k \in 1..Len(Batch(run.points, run.i)) |->
                                                Coords(Batch(run.points, run.i)[k])])]

\* Fault: the fetching state is entered before the arguments are validated.
failsAfterEnteringFetchingState(message) ==
    /\ demError' = message
    /\ isFetchingDem' = TRUE
    /\ UNCHANGED <<demFetchProgress, runs, started>>

\* setDemError(message); return;  before anything else has been set.
failsFast(message) ==
    /\ demError' = message
    /\ UNCHANGED <<isFetchingDem, demFetchProgress, runs, started>>

\* handleFetchDemElevation(sourceId), up to its first await.
handleFetchDemElevation(sourceId) ==
    LET points == pointsWithCoords(chartSourceData)
    IN IF Len(chartSourceData) = 0
       THEN failsFast(DemMessage("No chart data available to fetch elevation for.", "", 0, 0))
       ELSE IF Len(points) = 0
       THEN failsFast(DemMessage("No points with latitude/longitude found in the current FIT data.", "", 0, 0))
       ELSE IF sourceId \notin DemSourceIds
       THEN failsFast(DemMessage("Invalid DEM source ID", sourceId, 0, 0))
       ELSE IF sourceId \notin {"usgs", "opentopo"}
       THEN /\ demError' = DemMessage("not implemented yet", sourceId, 0, 0)
            /\ isFetchingDem' = FALSE
            /\ demFetchProgress' = [current |-> 0, total |-> Len(points)]
            /\ UNCHANGED <<runs, started>>
       ELSE /\ isFetchingDem' = TRUE
            /\ demError' = Absent
            /\ demFetchProgress' = [current |-> 0, total |-> Len(points)]
            /\ runs' = Append(runs, AtNextAwait(NewRun(sourceId, points)))
            /\ started' = started + 1

\* onClick={() => handleFetchDemElevation(selectedDemSourceId)} of the fetch
\* button.
fetchClick ==
    /\ DemControlsRendered
    /\ ~FetchButtonDisabled
    /\ Len(runs) < MaxActive
    /\ drops + started < MaxEvents
    /\ handleFetchDemElevation(selectedDemSourceId)
    /\ justFinished' = Absent
    /\ loaded' = Absent
    /\ UNCHANGED <<selectedDemSourceId, demDataSets>>
    /\ UNCHANGED fileVars

\* The identifiers handleFetchDemElevation can be handed: the configured
\* providers and one that DEM_SOURCES does not hold.
SourceIdArgs == DemSourceIds \cup {"srtm"}

\* handleFetchDemElevation(sourceId) called as a function, with any argument
\* and in any state, not through the fetch button.
invokeFetch(sourceId) ==
    /\ Len(runs) < MaxActive
    /\ drops + started < MaxEvents
    /\ handleFetchDemElevation(sourceId)
    /\ justFinished' = Absent
    /\ loaded' = Absent
    /\ UNCHANGED <<selectedDemSourceId, demDataSets>>
    /\ UNCHANGED fileVars

\* onChange of the provider select.
selectDemSource(id) ==
    /\ DemControlsRendered
    /\ id # selectedDemSourceId
    /\ selectedDemSourceId' = id
    /\ justFinished' = Absent
    /\ loaded' = Absent
    /\ UNCHANGED fileVars
    /\ UNCHANGED demVars

\* The sample pushed to fetchedDemPoints for a point; file and idx are carried
\* over from the point as history.
demPoint(point, elevation) ==
    [time |-> point.time, distance |-> point.distance,
     latitude |-> point.latitude, longitude |-> point.longitude,
     altitude |-> ToFixed2Milli(elevation),
     file |-> point.file, idx |-> point.idx]

\* Fault: the warning is also given when every point succeeded.
demErrorWarnsOnFullSuccess(successfulFetches, total, name, current) ==
    IF successfulFetches = 0 /\ total > 0
    THEN Some([kind |-> "Could not fetch any elevation data", name |-> name,
               s |-> 0, n |-> total])
    ELSE Some([kind |-> "Successfully fetched s of n points", name |-> name,
               s |-> successfulFetches, n |-> total])

\* The end of the run: the message chosen from the success count.
demErrorAtEnd(successfulFetches, total, name, current) ==
    IF successfulFetches = 0 /\ total > 0
    THEN DemMessage("Could not fetch any elevation data", name, 0, total)
    ELSE IF successfulFetches < total
    THEN DemMessage("Successfully fetched s of n points", name, successfulFetches, total)
    ELSE current

\* The number of samples the map holds for a provider.
StoredSamples(prev, sourceId) ==
    IF sourceId \in DOMAIN prev THEN Len(prev[sourceId].data) ELSE 0

\* Fault: the new samples are added to the series already stored.
publishKeepsEarlierSamples(prev, sourceId, fetchedDemPoints, drop) ==
    [id \in DOMAIN prev \cup {sourceId} |->
        IF id = sourceId
        THEN [data |-> (IF sourceId \in DOMAIN prev THEN prev[sourceId].data ELSE <<>>)
                           \o fetchedDemPoints,
              name |-> DEM_SOURCES[sourceId].name,
              drop |-> drop, replaced |-> StoredSamples(prev, sourceId)]
        ELSE prev[id]]

\* setDemDataSets(prev => ({ ...prev, [sourceId]: { data: fetchedDemPoints, ... } }))
\* drop and replaced are history: the number of files dropped when the
\* publishing run started, and the number of samples of the entry this one
\* took the place of.
publishDataSet(prev, sourceId, fetchedDemPoints, drop) ==
    [id \in DOMAIN prev \cup {sourceId} |->
        IF id = sourceId
        THEN [data |-> fetchedDemPoints, name |-> DEM_SOURCES[sourceId].name,
              drop |-> drop, replaced |-> StoredSamples(prev, sourceId)]
        ELSE prev[id]]

\* setDemFetchProgress({ current: i + 1, total }) of the per-point loop.
progressAfterPoint(i, total) == [current |-> i + 1, total |-> total]

\* Fault: the completed count of the batch loop is not capped at the total.
progressAfterBatchUncapped(i, total) == [current |-> i + batchSize, total |-> total]

\* setDemFetchProgress({ current: Math.min(i + batchSize, total), total })
progressAfterBatch(i, total) == [current |-> Min(i + batchSize, total), total |-> total]

\* Fault: the end of the invocation leaves the fetching flag set.
finishRunStillFetching(k, run) ==
    /\ demError' = demErrorAtEnd(run.successfulFetches, Len(run.points),
                                 DEM_SOURCES[run.sourceId].name, demError)
    /\ demDataSets' = publishDataSet(demDataSets, run.sourceId, run.fetchedDemPoints, run.drop)
    /\ isFetchingDem' = TRUE
    /\ runs' = RemoveAt(runs, k)
    /\ justFinished' = Some(run)

\* The rest of the invocation once the loop has ended.
finishRun(k, run) ==
    /\ demError' = demErrorAtEnd(run.successfulFetches, Len(run.points),
                                 DEM_SOURCES[run.sourceId].name, demError)
    /\ demDataSets' = publishDataSet(demDataSets, run.sourceId, run.fetchedDemPoints, run.drop)
    /\ isFetchingDem' = FALSE
    /\ runs' = RemoveAt(runs, k)
    /\ justFinished' = Some(run)

\* The run goes round its loop and suspends at the next await.
continueRun(k, run) ==
    /\ runs' = [runs EXCEPT ![k] = run]
    /\ justFinished' = Absent
    /\ UNCHANGED <<demError, demDataSets, isFetchingDem>>

\* The 50 ms (per point) or 200 ms (per batch) timer fires and the run calls
\* fetch(apiUrl).
delayElapsed(k) ==
    /\ k \in 1..Len(runs)
    /\ runs[k].pc = "delay"
    /\ LET run == runs[k]
           asked == IF run.sourceId = "usgs"
                    THEN <<Coords(run.points[run.i + 1])>>
                    ELSE [j \in 1..Len(Batch(run.points, run.i)) |->
                              Coords(Batch(run.points, run.i)[j])]
       IN runs' = [runs EXCEPT ![k] = [run EXCEPT !.pc = "fetch",
                                           !.delays = @ + 1,
                                           !.requests = Append(run.requests, asked)]]
    /\ justFinished' = Absent
    /\ loaded' = Absent
    /\ UNCHANGED <<selectedDemSourceId, demDataSets, isFetchingDem,
                   demFetchProgress, demError, started>>
    /\ UNCHANGED fileVars

\* The provider never answers the request in flight: fetch has no timeout
\* and the promise stays pending.
requestStalls(k) ==
    /\ k \in 1..Len(runs)
    /\ runs[k].pc = "fetch"
    /\ ~runs[k].stalled
    /\ runs' = [runs EXCEPT ![k].stalled = TRUE]
    /\ justFinished' = Absent
    /\ loaded' = Absent
    /\ UNCHANGED <<selectedDemSourceId, demDataSets, isFetchingDem,
                   demFetchProgress, demError, started>>
    /\ UNCHANGED fileVars

\* The per-point loop body from the settled fetch to the next await (or to
\* the end of the invocation).
usgsResponse(k, resp) ==
    /\ k \in 1..Len(runs)
    /\ runs[k].sourceId = "usgs"
    /\ runs[k].pc = "fetch"
    /\ ~runs[k].stalled
    /\ LET run == runs[k]
           point == run.points[run.i + 1]
           elevation == Number(resp.value)
           valid == resp.kind = "json" /\ UsgsElevationValid(elevation)
           after == [run EXCEPT
                       !.fetchedDemPoints =
                           IF valid THEN Append(@, demPoint(point, elevation.n)) ELSE @,
                       !.successfulFetches = IF valid THEN @ + 1 ELSE @,
                       !.answers = Append(@, UsgsAnswerHasData(resp)),
                       !.results = Append(@, IF UsgsAnswerHasData(resp)
                                             THEN Some(resp.value.n) ELSE Absent),
                       !.settled = @ + 1,
                       !.i = @ + 1,
                       !.pc = "delay"]
       IN /\ demFetchProgress' = progressAfterPoint(run.i, Len(run.points))
          /\ IF loopGoesOn(after.i, Len(run.points))
             THEN continueRun(k, AtNextAwait(after))
             ELSE finishRun(k, after)
    /\ loaded' = Absent
    /\ UNCHANGED <<selectedDemSourceId, started>>
    /\ UNCHANGED fileVars

\* Fault: the first result without an elevation ends the handling of the batch.
RECURSIVE batchSamplesStopAtNull(_, _, _)
batchSamplesStopAtNull(batch, results, j) ==
    IF j > Len(results) THEN <<>>
    ELSE IF IsPresent(results[j])
         THEN <<demPoint(batch[j], Val(results[j]))>>
                  \o batchSamplesStopAtNull(batch, results, j + 1)
         ELSE <<>>

\* data.results.forEach(...): the samples one OK batch answer adds, result by
\* result, each paired with batch[index_in_batch].
RECURSIVE batchSamples(_, _, _)
batchSamples(batch, results, j) ==
    IF j > Len(results) THEN <<>>
    ELSE IF IsPresent(results[j])
         THEN <<demPoint(batch[j], Val(results[j]))>> \o batchSamples(batch, results, j + 1)
         ELSE batchSamples(batch, results, j + 1)

\* The batch loop body from the settled fetch to the next await (or to the
\* end of the invocation).
openTopoResponse(k, resp) ==
    /\ k \in 1..Len(runs)
    /\ runs[k].sourceId = "opentopo"
    /\ runs[k].pc = "fetch"
    /\ ~runs[k].stalled
    /\ LET run == runs[k]
           batch == Batch(run.points, run.i)
           ok == resp.kind = "json" /\ resp.status = "OK"
           added == IF ok THEN batchSamples(batch, resp.results, 1) ELSE <<>>
           after == [run EXCEPT
                       !.fetchedDemPoints = @ \o added,
                       !.successfulFetches = @ + Len(added),
                       !.answers = @ \o [j \in 1..Len(batch) |->
                                            ok /\ IsPresent(resp.results[j])],
                       !.results = @ \o [j \in 1..Len(batch) |->
                                            IF ok THEN resp.results[j] ELSE Absent],
                       !.settled = @ + 1,
                       !.i = NextBatchStart(@),
                       !.pc = "delay"]
       IN /\ resp \in OpenTopoResponses(Len(batch))
          /\ demFetchProgress' = progressAfterBatch(run.i, Len(run.points))
          /\ IF loopGoesOn(after.i, Len(run.points))
             THEN continueRun(k, AtNextAwait(after))
             ELSE finishRun(k, after)
    /\ loaded' = Absent
    /\ UNCHANGED <<selectedDemSourceId, started>>
    /\ UNCHANGED fileVars

\* ------------------------------------------------------------ alignment
\* demSet.data.find(dp => dp.time === point.time || dp.distance === point.distance)
findDemPoint(data, point) ==
    LET hits == {j \in 1..Len(data) :
                    data[j].time = point.time \/ data[j].distance = point.distance}
    IN IF hits = {} THEN Absent
       ELSE Some(data[CHOOSE j \in hits : \A h \in hits : j <= h])

\* isMetric ? parseFloat(altitude.toFixed(1)) : parseFloat((altitude * 3.28084).toFixed(1))
\* in tenths of a metre or of a foot.
displayAltitude(altitude, isMetric) ==
    IF isMetric THEN RoundDiv(altitude, 100)
    ELSE RoundDiv(altitude * 328084, 10000000)

\* isMetric ? point.distance : parseFloat((point.distance * 0.621371).toFixed(2))
\* in hundredths of a kilometre or of a mile.
displayDistance(distance, isMetric) ==
    IF isMetric THEN distance ELSE RoundDiv(distance * 621371, 1000000)

\* The displayDem<Id>Altitude field of the row of point: absent when find
\* returns nothing.
displayDemAltitude(data, point, isMetric) ==
    LET found == findDemPoint(data, point)
    IN IF IsPresent(found) THEN Some(displayAltitude(Val(found).altitude, isMetric))
       ELSE Absent

\* getDisplayData(): one row per point of chartSourceData.
getDisplayData(isMetric) ==
    [k \in 1..Len(chartSourceData) |->
        [point |-> chartSourceData[k],
         displayDistance |-> displayDistance(chartSourceData[k].distance, isMetric),
         dem |-> [id \in DOMAIN demDataSets |->
                     displayDemAltitude(demDataSets[id].data, chartSourceData[k],
                                        isMetric)]]]

\* ------------------------------------------------- session data display
\* The text of a table cell is a sequence of characters (a string or a Date
\* printed whole is one element).
DigitChars == <<"0", "1", "2", "3", "4", "5", "6", "7", "8", "9">>

RECURSIVE Digits(_)
\* The decimal digits of a natural number.
Digits(n) ==
    IF n < 10 THEN <<DigitChars[n + 1]>>
    ELSE Digits(n \div 10) \o <<DigitChars[(n % 10) + 1]>>

\* String(n) of an integer n.
String(n) == IF n < 0 THEN <<"-">> \o Digits(-n) ELSE Digits(n)

RECURSIVE padStart(_, _, _)
\* text.padStart(targetLength, padString) with a padString of one character.
padStart(text, targetLength, padString) ==
    IF Len(text) >= targetLength THEN text
    ELSE padStart(<<padString>> \o text, targetLength, padString)

Pow10(d) == CASE d = 0 -> 1 [] d = 1 -> 10 [] d = 2 -> 100 [] d = 3 -> 1000

\* x.toFixed(d) of the number x = num / (unit * 10^d): the magnitude rounded
\* to d decimals, halves away from zero, behind the sign of x.
toFixed(num, unit, d) ==
    LET r == RoundDiv(IF num < 0 THEN -num ELSE num, unit)
    IN (IF num < 0 THEN <<"-">> ELSE <<>>)
          \o Digits(r \div Pow10(d))
          \o (IF d = 0 THEN <<>> ELSE <<".">> \o padStart(Digits(r % Pow10(d)), d, "0"))

\* a % b of ECMAScript for b > 0: the remainder has the sign of a.
JsRem(a, b) == IF a >= 0 THEN a % b ELSE -((-a) % b)

\* x / unit with the fraction cut off.
Trunc(x, unit) == IF x >= 0 THEN x \div unit ELSE -((-x) \div unit)

\* Fault: the minutes are those of the whole duration, not of the last hour.
formatDurationMinutesOfTotal(value) ==
    LET hours == value \div 3600000
        minutes == value \div 60000
        seconds == JsRem(value, 60000) \div 1000
    IN padStart(String(hours), 2, "0") \o <<":">>
          \o padStart(String(minutes), 2, "0") \o <<":">>
          \o padStart(String(seconds), 2, "0")

\* case 'totalElapsedTime': case 'totalTimerTime': of formatValue, for a
\* value in thousandths of a second.
formatDuration(value) ==
    LET hours == value \div 3600000
        minutes == JsRem(value, 3600000) \div 60000
        seconds == JsRem(value, 60000) \div 1000
    IN padStart(String(hours), 2, "0") \o <<":">>
          \o padStart(String(minutes), 2, "0") \o <<":">>
          \o padStart(String(seconds), 2, "0")

\* The switch of formatValue for a value of type number, n in thousandths.
\* metersToMiles(value).toFixed(2) is n * 621371 / 10^10 rounded: cutting
\* off at 10^-9 first leaves the rounding as it is.
formatNumber(key, n, isMetric) ==
    CASE key = "totalDistance" ->
            IF isMetric THEN toFixed(n, 10000, 2)
            ELSE toFixed(Trunc(n * 621371, 1000000000), 10, 2)
      [] key \in {"avgSpeed", "maxSpeed"} ->
            IF isMetric THEN toFixed(n * 36, 1000, 1) ELSE toFixed(n * 223694, 10000000, 1)
      [] key \in {"totalAscent", "totalDescent", "minAltitude", "avgAltitude", "maxAltitude"} ->
            IF isMetric THEN toFixed(n, 1000, 0) ELSE toFixed(n * 328084, 100000000, 0)
      [] key \in {"avgTemperature", "maxTemperature"} ->
            IF isMetric THEN toFixed(n, 1000, 0) ELSE toFixed(n * 9 + 160000, 5000, 0)
      [] key \in {"totalElapsedTime", "totalTimerTime"} -> formatDuration(n)
      [] OTHER -> IF n % 1000 = 0 THEN String(n \div 1000) ELSE toFixed(n, 10, 2)

\* value.toLocaleString() of a Date: the text is the host's.
toLocaleString(value) == <<"toLocaleString", value.s>>

\* formatValue(key, value)
formatValue(key, value, isMetric) ==
    IF value.t \in {"undefined", "null"} THEN <<"N", "/", "A">>
    ELSE IF key = "startTime" /\ value.t = "date" THEN toLocaleString(value)
    ELSE IF value.t = "number" THEN formatNumber(key, value.n, isMetric)
    ELSE <<value.s>>

\* The label getDisplayFields() gives a key (without the degree sign of the
\* temperature units).
displayLabel(key, isMetric) ==
    CASE key = "startTime" -> "Start Time"
      [] key = "totalElapsedTime" -> "Total Elapsed Time (hh:mm:ss)"
      [] key = "totalTimerTime" -> "Total Timer Time (hh:mm:ss)"
      [] key = "totalDistance" -> IF isMetric THEN "Total Distance (km)" ELSE "Total Distance (mi)"
      [] key = "avgSpeed" -> IF isMetric THEN "Average Speed (km/h)" ELSE "Average Speed (mph)"
      [] key = "maxSpeed" -> IF isMetric THEN "Max Speed (km/h)" ELSE "Max Speed (mph)"
      [] key = "totalAscent" -> IF isMetric THEN "Total Ascent (m)" ELSE "Total Ascent (ft)"
      [] key = "totalDescent" -> IF isMetric THEN "Total Descent (m)" ELSE "Total Descent (ft)"
      [] key = "minAltitude" -> IF isMetric THEN "Min Altitude (m)" ELSE "Min Altitude (ft)"
      [] key = "avgAltitude" -> IF isMetric THEN "Avg Altitude (m)" ELSE "Avg Altitude (ft)"
      [] key = "maxAltitude" -> IF isMetric THEN "Max Altitude (m)" ELSE "Max Altitude (ft)"
      [] key = "avgHeartRate" -> "Average Heart Rate (bpm)"
      [] key = "maxHeartRate" -> "Max Heart Rate (bpm)"
      [] key = "avgCadence" -> "Average Cadence (rpm)"
      [] key = "maxCadence" -> "Max Cadence (rpm)"
      [] key = "avgPower" -> "Average Power (W)"
      [] key = "maxPower" -> "Max Power (W)"
      [] key = "totalCalories" -> "Total Calories (kcal)"
      [] key = "normalizedPower" -> "Normalized Power (W)"
      [] key = "avgTemperature" -> IF isMetric THEN "Avg Temperature (C)" ELSE "Avg Temperature (F)"
      [] key = "maxTemperature" -> IF isMetric THEN "Max Temperature (C)" ELSE "Max Temperature (F)"

\* Fault: a row is rendered for truthy values only, so a 0 gets none.
rowRenderedIfTruthy(rawValue) ==
    /\ rawValue.t \notin {"undefined", "null"}
    /\ ~(rawValue.t = "number" /\ rawValue.n = 0)
    /\ ~(rawValue.t = "string" /\ rawValue.s = "")

\* if (rawValue === undefined || rawValue === null) return null;
rowRendered(rawValue) == rawValue.t \notin {"undefined", "null"}

\* The <tr> elements of SessionDataDisplay({ sessionData, isMetric }), in
\* order; Absent when the component returns null.
SessionDataDisplay(session, isMetric) ==
    IF ~IsPresent(session) THEN Absent
    ELSE LET Shown(key) == rowRendered(Val(session)[key])
             keys == SelectSeq(DisplayKeys, Shown)
         IN Some([i \in 1..Len(keys) |->
                     [key |-> keys[i],
                      label |-> displayLabel(keys[i], isMetric),
                      value |-> formatValue(keys[i], Val(session)[keys[i]], isMetric)]])

\* {sessionData && <SessionDataDisplay sessionData={sessionData} isMetric={isMetric} />}
SessionTable(isMetric) == SessionDataDisplay(sessionData, isMetric)

\* ------------------------------------------------------- specification
RunIds == 1..MaxActive
ReaderIds == 1..MaxEvents

Next ==
    \/ \E file \in DroppedFiles : onDrop(file)
    \/ \E k \in ReaderIds : readerOnLoad(k)
    \/ \E k \in ReaderIds : readerOnError(k)
    \/ fetchClick
    \/ \E id \in DemSourceIds : selectDemSource(id)
    \/ \E k \in RunIds : delayElapsed(k)
    \/ \E k \in RunIds : requestStalls(k)
    \/ \E k \in RunIds, resp \in UsgsResponses : usgsResponse(k, resp)
    \/ \E k \in RunIds, len \in 1..batchSize :
           \E resp \in OpenTopoResponses(len) : openTopoResponse(k, resp)

Spec == Init /\ [][Next]_vars

\* The application together with direct calls of handleFetchDemElevation.
HandlerNext ==
    \/ Next
    \/ \E id \in SourceIdArgs : invokeFetch(id)

HandlerSpec == Init /\ [][HandlerNext]_vars

\* -------------------------------------- normalisation over all record sets
\* The fields a record message may carry or lack: a timestamp (seconds); a
\* distance and an enhanced distance (metres); an altitude and an enhanced
\* altitude (millimetres) with or without a position.
RecordTimestamps == {Absent, Some(10), Some(20)}

RecordDistances ==
    {<<Absent, Absent>>, <<Some(504), Absent>>, <<Absent, Some(1500)>>,
     <<Some(504), Some(1500)>>}

RecordAltitudes ==
    {<<Absent, Absent, TRUE>>, <<Some(296400), Absent, TRUE>>,
     <<Absent, Some(296444), TRUE>>, <<Some(296400), Some(296444), TRUE>>,
     <<Some(296400), Absent, FALSE>>}

\* Records that differ in the fields normalisation keys on, and records with
\* a timestamp and a distance that differ in the other fields.
DecodedRecords ==
    {RawRecord(ts, d[1], d[2], Some(100), Some(-200), Some(296400), Absent) :
        ts \in RecordTimestamps, d \in RecordDistances}
    \cup
    {RawRecord(ts, Some(504), Absent,
               IF a[3] THEN Some(100) ELSE Absent, IF a[3] THEN Some(-200) ELSE Absent,
               a[1], a[2]) :
        ts \in RecordTimestamps \ {Absent}, a \in RecordAltitudes}

\* messages.recordMesgs of a decoded file: up to MaxRecords records, in any
\* order.
RecordMesgs == UNION {[1..n -> DecodedRecords] : n \in 0..MaxRecords}

\* A file that decodes to some record messages has been dropped and its
\* reader has not called back yet.
NormInit ==
    /\ chartSourceData = <<>>
    /\ error = ""
    /\ isLoading = TRUE
    /\ fileName = "ride.fit"
    /\ sessionData = Absent
    /\ fitAvailableFields = <<>>
    /\ selectedFields = <<"altitude">>
    /\ selectedDemSourceId = "usgs"
    /\ demDataSets = <<>>
    /\ isFetchingDem = FALSE
    /\ demFetchProgress = [current |-> 0, total |-> 0]
    /\ demError = Absent
    /\ \E records \in RecordMesgs :
           readers = <<[file |-> GoodFile(records), drop |-> 1]>>
    /\ runs = <<>>
    /\ drops = 1
    /\ started = 0
    /\ justFinished = Absent
    /\ loaded = Absent

NormNext == \E k \in ReaderIds : readerOnLoad(k)

NormSpec == NormInit /\ [][NormNext]_vars

\* ------------------------------------- the session summary of one file
\* Durations cover every second and half second up to MaxSeconds.
MaxSeconds == 3700

\* Durations in thousandths of a second: the whole and the half seconds up
\* to MaxSeconds, 4:59:17, 99:59:59 and 100 hours.
Durations ==
    {1000 * s + f : s \in 0..MaxSeconds, f \in {0, 500}}
        \cup {17957000, 359999000, 360000000}

\* messages.sessionMesgs[0] of a decoded file: a session with an elapsed
\* time alone, or a session in which each of five fields is missing, null,
\* zero or set.
SessionMesgs ==
    {SessionMesg(JsUndefined, JsNum(d), JsUndefined, JsUndefined, JsUndefined) :
        d \in Durations}
      \cup {SessionMesg(st, el, tt, di, hr) :
                st \in {JsUndefined, JsStr("2024-05-01T10:00:00Z"), JsDate("2024-05-01T10:00:00Z")},
                el \in {JsUndefined, JsNull, JsNum(0), JsNum(17957000)},
                tt \in {JsUndefined, JsNum(17000500)},
                di \in {JsUndefined, JsNull, JsNum(0), JsNum(1000)},
                hr \in {JsUndefined, JsNum(0), JsNum(142000), JsNum(142500)}}

\* A file that decodes to two records and to some session message, or to
\* none, has been dropped and its reader has not called back yet.
SessionInit ==
    /\ chartSourceData = <<>>
    /\ error = ""
    /\ isLoading = TRUE
    /\ fileName = "ride.fit"
    /\ sessionData = Absent
    /\ fitAvailableFields = <<>>
    /\ selectedFields = <<"altitude">>
    /\ selectedDemSourceId = "usgs"
    /\ demDataSets = <<>>
    /\ isFetchingDem = FALSE
    /\ demFetchProgress = [current |-> 0, total |-> 0]
    /\ demError = Absent
    /\ \E sessions \in {<<>>} \cup {<<m>> : m \in SessionMesgs} :
           readers = <<[file |-> SessionFile(TRUE, TRUE, TRUE, TRUE, FALSE,
                                             <<NoPosRecord(40, 0), NoPosRecord(41, 10)>>,
                                             sessions),
                        drop |-> 1]>>
    /\ runs = <<>>
    /\ drops = 1
    /\ started = 0
    /\ justFinished = Absent
    /\ loaded = Absent

SessionNext == \E k \in ReaderIds : readerOnLoad(k)

SessionSpec == SessionInit /\ [][SessionNext]_vars


\* =============================================================== claims
\* The samples of the series stored for provider id that were fetched for
\* the point p (the same row of the same dropped file).
SamplesOf(id, p) ==
    {j \in 1..Len(demDataSets[id].data) :
        /\ demDataSets[id].data[j].file = p.file
        /\ demDataSets[id].data[j].idx = p.idx}

\* C1: once a new file has been dropped, the DEM dataset map holds no sample
\* published by a fetch run that was started for an earlier file: the result
\* of a run in flight at the drop is discarded.
C1_StaleRunResultDiscarded ==
    \A id \in DOMAIN demDataSets :
        \A j \in 1..Len(demDataSets[id].data) : demDataSets[id].drop = drops

\* C7: at most one DEM fetch run is in flight at any time, whatever the
\* interleaving of fetch clicks, provider selections and file drops.
C7_AtMostOneActiveRun == Len(runs) <= 1

\* A run is in flight for one provider while the DEM controls are on screen
\* with the other provider selected, after a second file has been dropped:
\* the fetch button is there and refuses the click.
C7_Witness ==
    /\ Len(runs) = 1
    /\ DemControlsRendered
    /\ selectedDemSourceId # runs[1].sourceId
    /\ drops = 2

\* C8: a chart row whose point has no sample of its own in a DEM series shows
\* no DEM altitude for that series; it is never given the altitude fetched
\* for another point.
C8_UnmatchedRowHasNoDemAltitude ==
    \A isMetric \in BOOLEAN :
        \A k \in 1..Len(chartSourceData) :
            \A id \in DOMAIN demDataSets :
                SamplesOf(id, chartSourceData[k]) = {}
                    => getDisplayData(isMetric)[k].dem[id] = Absent

\* C9: a chart row whose point has a sample of its own in a DEM series shows
\* the altitude of that sample, not the altitude of another point's sample.
C9_RowShowsOwnDemAltitude ==
    \A isMetric \in BOOLEAN :
        \A k \in 1..Len(chartSourceData) :
            \A id \in DOMAIN demDataSets :
                \A j \in SamplesOf(id, chartSourceData[k]) :
                    getDisplayData(isMetric)[k].dem[id]
                        = Some(displayAltitude(demDataSets[id].data[j].altitude, isMetric))

\* The steps run k of handleFetchDemElevation can take by itself.
RunStep(k) ==
    \/ delayElapsed(k)
    \/ \E resp \in UsgsResponses : usgsResponse(k, resp)
    \/ \E len \in 1..batchSize :
           \E resp \in OpenTopoResponses(len) : openTopoResponse(k, resp)

\* C10: a run in flight can always go on towards its terminal state, also
\* when the request it waits for has stalled: the stalled request fails its
\* own point or batch and the run does not hang.
C10_RunNeverHangs == \A k \in 1..Len(runs) : ENABLED RunStep(k)


\* The coordinates of points[from..to], in order.
CoordsOf(points, from, to) == [j \in 1..(to - from + 1) |-> Coords(points[from + j - 1])]

RECURSIVE Flatten(_)
Flatten(qs) == IF qs = <<>> THEN <<>> ELSE Head(qs) \o Flatten(Tail(qs))

\* Requests of a run that have been answered.
Answered(run) == Len(run.requests) - (IF run.pc = "fetch" THEN 1 ELSE 0)

\* Points one request of the provider covers.
PointsPerRequest(sourceId) == IF sourceId = "usgs" THEN 1 ELSE batchSize

\* The values i takes in for (let i = 0; i < total; i += size).
RECURSIVE batchLoop(_, _, _)
batchLoop(i, total, size) ==
    IF loopGoesOn(i, total) THEN <<i>> \o batchLoop(i + size, total, size) ELSE <<>>

\* C2, in every state: the completed count never exceeds the total; while a
\* run is in flight the total is its number of points and the completed
\* count is the number of points its answered requests cover (one more point
\* or batch per answered request); when the run has finished the completed
\* count equals the total, whatever the number of failures.
C2_ProgressState ==
    /\ demFetchProgress.current <= demFetchProgress.total
    /\ \A k \in 1..Len(runs) :
          /\ demFetchProgress.total = Len(runs[k].points)
          /\ demFetchProgress.current
                = Min(Answered(runs[k]) * PointsPerRequest(runs[k].sourceId),
                      Len(runs[k].points))
    /\ IsPresent(justFinished)
          => /\ demFetchProgress.total = Len(Val(justFinished).points)
             /\ demFetchProgress.current = demFetchProgress.total
             /\ Len(Val(justFinished).answers) = demFetchProgress.total

\* C2, in every step: a step that starts a run resets the progress to
\* {0, n}; any other step leaves the completed count as it is or raises it.
C2_ProgressStep ==
    IF started' # started
    THEN demFetchProgress' = [current |-> 0, total |-> Len(runs'[Len(runs')].points)]
    ELSE /\ demFetchProgress'.current >= demFetchProgress.current
         /\ demFetchProgress'.total = demFetchProgress.total

\* C2: progress is reset to {0, n} when a run starts, advances once per
\* answered request without ever decreasing or exceeding n, and is n when
\* the run finishes.
C2_ProgressMonotoneAndComplete == []C2_ProgressState /\ [][C2_ProgressStep]_vars

\* A run over three points has just finished with every request failed and
\* the progress stands at 3 of 3.
C2_Witness ==
    /\ IsPresent(justFinished)
    /\ Val(justFinished).successfulFetches = 0
    /\ Len(Val(justFinished).points) = 3
    /\ demFetchProgress = [current |-> 3, total |-> 3]

\* C3: when a run over n > 0 points finishes with s successes, the DEM error
\* is the hard failure naming the provider if s = 0, the warning carrying s
\* and n if 0 < s < n (and the partial series is published), and stays
\* cleared if s = n.
C3_ResultPolicy ==
    IsPresent(justFinished) =>
        LET run == Val(justFinished)
            n == Len(run.points)
            s == run.successfulFetches
            name == DEM_SOURCES[run.sourceId].name
        IN /\ n > 0
           /\ s = 0 => demError = DemMessage("Could not fetch any elevation data", name, 0, n)
           /\ (0 < s /\ s < n) =>
                 /\ demError = DemMessage("Successfully fetched s of n points", name, s, n)
                 /\ run.sourceId \in DOMAIN demDataSets
                 /\ demDataSets[run.sourceId].data = run.fetchedDemPoints
                 /\ Len(demDataSets[run.sourceId].data) = s
           /\ s = n => demError = Absent
           /\ s <= n

\* A run has just finished with some but not all of its three points fetched.
C3_Witness ==
    /\ IsPresent(justFinished)
    /\ Val(justFinished).successfulFetches = 2
    /\ Len(Val(justFinished).points) = 3

\* C4: the per-point run issues its requests one per point in series order,
\* a failed request does not stop it, and when it finishes exactly n
\* requests have been issued.
C4_PerPointRequestsAll ==
    /\ \A k \in 1..Len(runs) :
          runs[k].sourceId = "usgs" =>
              /\ Len(runs[k].requests) = runs[k].i + (IF runs[k].pc = "fetch" THEN 1 ELSE 0)
              /\ \A j \in 1..Len(runs[k].requests) :
                    runs[k].requests[j] = <<Coords(runs[k].points[j])>>
    /\ (IsPresent(justFinished) /\ Val(justFinished).sourceId = "usgs") =>
          LET run == Val(justFinished)
          IN /\ Len(run.requests) = Len(run.points)
             /\ \A j \in 1..Len(run.points) : run.requests[j] = <<Coords(run.points[j])>>

\* A per-point run over three points has just finished; its first request
\* failed and the two after it were issued and succeeded.
C4_Witness ==
    /\ IsPresent(justFinished)
    /\ Val(justFinished).sourceId = "usgs"
    /\ Len(Val(justFinished).points) = 3
    /\ Len(Val(justFinished).requests) = 3
    /\ Val(justFinished).successfulFetches = 2
    /\ ~Val(justFinished).answers[1]

\* C5: the batch run asks for its points in consecutive batches of batchSize
\* points (the last one possibly shorter), and when it finishes exactly
\* ceil(n / batchSize) requests have been issued, whether or not they
\* failed; the loop over 250 points in batches of 100 makes 3 requests.
C5_BatchPartition ==
    /\ \A k \in 1..Len(runs) :
          runs[k].sourceId = "opentopo" =>
              /\ \A j \in 1..Len(runs[k].requests) :
                    runs[k].requests[j]
                        = CoordsOf(runs[k].points, (j - 1) * batchSize + 1,
                                   Min(j * batchSize, Len(runs[k].points)))
              /\ Len(runs[k].requests) * batchSize
                    < Len(runs[k].points) + batchSize
    /\ (IsPresent(justFinished) /\ Val(justFinished).sourceId = "opentopo") =>
          LET run == Val(justFinished)
              n == Len(run.points)
          IN /\ Len(run.requests) = (n + batchSize - 1) \div batchSize
             /\ Len(run.requests) = Len(batchLoop(0, n, batchSize))
             /\ Flatten(run.requests) = CoordsOf(run.points, 1, n)
             /\ \A j \in 1..Len(run.requests) :
                   /\ Len(run.requests[j]) >= 1
                   /\ Len(run.requests[j]) <= batchSize
                   /\ j < Len(run.requests) => Len(run.requests[j]) = batchSize
    /\ batchLoop(0, 250, 100) = <<0, 100, 200>>

\* A batch run over three points has just finished: two requests were
\* issued, the first for a full batch, and both failed.
C5_Witness ==
    /\ IsPresent(justFinished)
    /\ Val(justFinished).sourceId = "opentopo"
    /\ Len(Val(justFinished).points) = 3
    /\ Len(Val(justFinished).requests) = 2
    /\ Len(Val(justFinished).requests[1]) = batchSize
    /\ Val(justFinished).successfulFetches = 0

\* C6: the series a run publishes holds exactly one sample for every point
\* whose answer carried an elevation and none for a point whose answer did
\* not, so its length is the success count of the run; every sample carries
\* the elapsed time and distance of the point it was fetched for.
C6_SeriesIsTheSuccessfulPoints ==
    IsPresent(justFinished) =>
        LET run == Val(justFinished)
            data == demDataSets[run.sourceId].data
        IN /\ Len(data) = run.successfulFetches
           /\ \A j \in 1..Len(run.points) :
                 Cardinality(SamplesOf(run.sourceId, run.points[j]))
                     = IF run.answers[j] THEN 1 ELSE 0
           /\ \A q \in 1..Len(data) :
                 \E j \in 1..Len(run.points) :
                     /\ data[q].idx = run.points[j].idx
                     /\ data[q].file = run.points[j].file
                     /\ data[q].time = run.points[j].time
                     /\ data[q].distance = run.points[j].distance


\* C11: a call of handleFetchDemElevation made when no point of the series
\* has both latitude and longitude, or with an identifier that is not a
\* configured provider, sets the error of that case and nothing else: no run
\* starts and no request is issued, the fetching flag, the progress and the
\* stored DEM series stay as they were.
C11_FailsFast ==
    [][\A id \in SourceIdArgs :
          (/\ invokeFetch(id)
           /\ (pointsWithCoords(chartSourceData) = <<>> \/ id \notin DemSourceIds))
              => /\ demError' =
                      IF chartSourceData = <<>>
                      THEN DemMessage("No chart data available to fetch elevation for.", "", 0, 0)
                      ELSE IF pointsWithCoords(chartSourceData) = <<>>
                      THEN DemMessage("No points with latitude/longitude found in the current FIT data.", "", 0, 0)
                      ELSE DemMessage("Invalid DEM source ID", id, 0, 0)
                 /\ runs' = runs
                 /\ started' = started
                 /\ isFetchingDem' = isFetchingDem
                 /\ demFetchProgress' = demFetchProgress
                 /\ demDataSets' = demDataSets]_vars

\* The call with an unknown provider has been refused after a run over three
\* points had completed: the series that run stored and its progress are
\* still there and nothing is being fetched.
C11_Witness ==
    /\ demError = DemMessage("Invalid DEM source ID", "srtm", 0, 0)
    /\ demFetchProgress = [current |-> 3, total |-> 3]
    /\ DOMAIN demDataSets # {}
    /\ ~isFetchingDem
    /\ runs = <<>>


\* C12: the step in which a run for provider P completes stores, as the
\* series of P, exactly the samples that run fetched, whatever series P had
\* before and also when the run fetched fewer samples or none; the entry of
\* every other provider is the one it was before the step.
C12_RefetchReplacesSeries ==
    [][IsPresent(justFinished') =>
          LET run == Val(justFinished')
              P == run.sourceId
          IN /\ DOMAIN demDataSets' = DOMAIN demDataSets \cup {P}
             /\ demDataSets'[P].data = run.fetchedDemPoints
             /\ Len(demDataSets'[P].data) = run.successfulFetches
             /\ \A id \in DOMAIN demDataSets \ {P} :
                    demDataSets'[id] = demDataSets[id]]_vars

\* A second run for the same provider has just completed with a single
\* sample where the series stored before held three: the series now is that
\* one sample.
C12_Witness ==
    /\ IsPresent(justFinished)
    /\ Val(justFinished).successfulFetches = 1
    /\ Val(justFinished).sourceId \in DOMAIN demDataSets
    /\ demDataSets[Val(justFinished).sourceId].replaced = 3
    /\ Len(demDataSets[Val(justFinished).sourceId].data) = 1


\* The run that was runs[k] as the step leaves it: the completed run if the
\* step completed one, else the run still in flight.
RunAfterStep(k) == IF IsPresent(justFinished') THEN Val(justFinished') ELSE runs'[k]

\* C13: a step in which the per-point provider answers a request with no
\* data (the value field is the no-data value -1000000 or is not a number:
\* missing, null, a string) adds no sample to the series of the run and
\* leaves its success count as it was.
C13_NoDataAnswerAddsNoSample ==
    [][\A k \in 1..Len(runs) :
          (Len(runs) = 1 /\ runs[k].sourceId = "usgs") =>
              LET before == runs[k]
                  after == RunAfterStep(k)
              IN (/\ Len(after.results) = Len(before.results) + 1
                  /\ after.results[Len(after.results)] = Absent)
                     => /\ after.fetchedDemPoints = before.fetchedDemPoints
                        /\ after.successfulFetches = before.successfulFetches]_vars


\* The samples a run must hold when the provider's answers for its first
\* points are results (an elevation or none): one per point that was given
\* an elevation, in point order, carrying the keys and position of that
\* point and the elevation rounded to two decimals.
RECURSIVE SamplesAnswered(_, _, _)
SamplesAnswered(points, results, j) ==
    IF j > Len(results) THEN <<>>
    ELSE (IF IsPresent(results[j])
          THEN <<[time |-> points[j].time, distance |-> points[j].distance,
                  latitude |-> points[j].latitude, longitude |-> points[j].longitude,
                  altitude |-> ToFixed2Milli(Val(results[j])),
                  file |-> points[j].file, idx |-> points[j].idx]>>
          ELSE <<>>) \o SamplesAnswered(points, results, j + 1)

\* The batch runs in flight and the batch run the last step completed.
BatchRuns ==
    {runs[k] : k \in {n \in 1..Len(runs) : runs[n].sourceId = "opentopo"}}
        \cup (IF IsPresent(justFinished) /\ Val(justFinished).sourceId = "opentopo"
              THEN {Val(justFinished)} ELSE {})

\* C14: the samples of a batch run are exactly those of the points for which
\* an OK batch answer carried an elevation, each paired with the point at
\* the same index of the request: a batch answered with another status (or
\* not answered) adds none, a null elevation inside an OK answer drops that
\* point alone.
C14_BatchResultsPairedByIndex ==
    \A run \in BatchRuns :
        /\ run.fetchedDemPoints = SamplesAnswered(run.points, run.results, 1)
        /\ run.successfulFetches = Len(run.fetchedDemPoints)

\* A batch run over three points has completed; the answer for its first
\* batch had no elevation for the first point and one for the second, and
\* its second batch gave nothing: the one sample is that of the second point.
C14_Witness ==
    /\ IsPresent(justFinished)
    /\ Val(justFinished).sourceId = "opentopo"
    /\ Val(justFinished).results = <<Absent, Some(1236), Absent>>
    /\ Len(Val(justFinished).fetchedDemPoints) = 1
    /\ Val(justFinished).fetchedDemPoints[1].idx = Val(justFinished).points[2].idx
    /\ Val(justFinished).fetchedDemPoints[1].altitude = 1240


\* Requests of a run that have been issued and not yet settled.
InFlight(run) == Len(run.requests) - run.settled

\* C15, in every state: a run has at most one request in flight, and its
\* timers have fired once per request issued (the per-point loop) or once
\* per request after the first (the batch loop).
C15_OneRequestInFlight ==
    \A k \in 1..Len(runs) :
        /\ InFlight(runs[k]) \in {0, 1}
        /\ InFlight(runs[k]) = 1 <=> runs[k].pc = "fetch"
        /\ runs[k].delays
              = Len(runs[k].requests) - (IF runs[k].sourceId = "usgs" THEN 0 ELSE 1)

\* C15, in every step: a run issues a request only when the one before it has
\* settled, and every request but the first of the run is issued by the
\* step in which the delay timer, started after that request settled, fires.
C15_DelayBeforeNextRequest ==
    \A k \in 1..Len(runs) :
        (/\ Len(runs') = Len(runs)
         /\ Len(runs'[k].requests) # Len(runs[k].requests))
            => /\ Len(runs'[k].requests) = Len(runs[k].requests) + 1
               /\ InFlight(runs[k]) = 0
               /\ Len(runs[k].requests) > 0 =>
                     /\ runs[k].pc = "delay"
                     /\ runs'[k].delays = runs[k].delays + 1

\* C15: the requests of a run go out one after another, never two at once,
\* and a delay elapses between any two consecutive requests.
C15_SequentialWithDelay == []C15_OneRequestInFlight /\ [][C15_DelayBeforeNextRequest]_vars

\* A batch run waits for the answer to its second request: the first has
\* settled and one delay timer has fired since.
C15_Witness ==
    /\ Len(runs) = 1
    /\ runs[1].sourceId = "opentopo"
    /\ Len(runs[1].requests) = 2
    /\ runs[1].settled = 1
    /\ runs[1].delays = 1
    /\ runs[1].pc = "fetch"


\* ------------------------------------------- normalisation (NormSpec)
\* The record messages of the file whose reader the last step served.
LoadedRecords == Val(loaded).file.recordMesgs

\* The records the series was built from, in the order of its samples.
RetainedInOrder == SortByTimestamp(recordsWithDistance(LoadedRecords))

\* The distance field a sample is computed from, in metres.
UsedDistance(r) == IF IsPresent(r.distance) THEN Val(r.distance) ELSE Val(r.enhancedDistance)

RetainedTimestamps ==
    {Val(LoadedRecords[j].timestamp) :
        j \in {n \in 1..Len(LoadedRecords) :
                  /\ IsPresent(LoadedRecords[n].timestamp)
                  /\ (IsPresent(LoadedRecords[n].distance)
                        \/ IsPresent(LoadedRecords[n].enhancedDistance))}}

Preferred(base, enhanced) == IF IsPresent(enhanced) THEN Val(enhanced) ELSE Val(base)

\* C18: the distance of every sample is computed from its record's enhanced
\* distance when the record carries one and from the base distance
\* otherwise, and likewise its altitude from the enhanced altitude when the
\* record carries one and from the base altitude when it carries only that.
C18_EnhancedFieldTakesPrecedence ==
    IsPresent(loaded) =>
        \A k \in 1..Len(chartSourceData) :
            LET r == RetainedInOrder[k]
            IN /\ chartSourceData[k].distance
                     = RoundDiv(Preferred(r.distance, r.enhancedDistance), 10)
               /\ (IsPresent(r.altitude) \/ IsPresent(r.enhancedAltitude))
                     => chartSourceData[k].altitude
                           = Some(ToFixed2Milli(Preferred(r.altitude, r.enhancedAltitude)))


\* The positions in the file of the records that have a timestamp and a
\* distance, base or enhanced.
RetainedRecords ==
    {n \in 1..Len(LoadedRecords) :
        /\ IsPresent(LoadedRecords[n].timestamp)
        /\ (IsPresent(LoadedRecords[n].distance)
              \/ IsPresent(LoadedRecords[n].enhancedDistance))}

\* What tells the sample of a record from the samples of other records: its
\* timestamp and whether it has a position.
RecordKey(r) == <<Val(r.timestamp), IsPresent(r.positionLat)>>

SampleKey(p) == <<p.timestamp, IsPresent(p.latitude)>>

\* C19: the series has one sample per record that has a timestamp and a
\* distance (base or enhanced) and none for any other record: as many
\* samples as such records, and for every timestamp as many samples carrying
\* it (with a position, and without) as there are such records carrying it,
\* whether or not the record has an altitude or a position.
C19_RetainsRecordsWithTimestampAndDistance ==
    IsPresent(loaded) =>
        /\ Len(chartSourceData) = Cardinality(RetainedRecords)
        /\ \A n \in RetainedRecords :
              Cardinality({k \in 1..Len(chartSourceData) :
                              SampleKey(chartSourceData[k]) = RecordKey(LoadedRecords[n])})
                  = Cardinality({m \in RetainedRecords :
                                    RecordKey(LoadedRecords[m]) = RecordKey(LoadedRecords[n])})

\* A file of three records, one of them without a timestamp, has given a
\* series of two samples, one without altitude and one without position.
C19_Witness ==
    /\ IsPresent(loaded)
    /\ Len(LoadedRecords) = 3
    /\ \E n \in 1..3 : LoadedRecords[n].timestamp = Absent
    /\ Len(chartSourceData) = 2
    /\ \E k \in 1..2 : chartSourceData[k].altitude = Absent
    /\ \E k \in 1..2 : chartSourceData[k].latitude = Absent


\* C20: when no record of the file has a timestamp and a distance, the
\* handler runs to its end with the error of that case set, the series
\* empty, no field available for selection, the loading flag cleared and no
\* DEM controls on screen.
C20_NoUsableRecordsReported ==
    (IsPresent(loaded) /\ RetainedRecords = {}) =>
        /\ error = "No records with timestamp and distance found to create a chart."
        /\ chartSourceData = <<>>
        /\ fitAvailableFields = <<>>
        /\ ~isLoading
        /\ ~DemControlsRendered
        /\ readers = <<>>

\* A file of three records, none with both a timestamp and a distance, has
\* been read: the error is shown and there is no series.
C20_Witness ==
    /\ IsPresent(loaded)
    /\ Len(LoadedRecords) = 3
    /\ RetainedRecords = {}
    /\ error = "No records with timestamp and distance found to create a chart."
    /\ chartSourceData = <<>>
    /\ fitAvailableFields = <<>>


\* ------------------------------------------------- errors of the file flow
\* The error reader.onload reports for a decoded file without a single
\* record message: records is then [], the filter leaves [], and the branch
\* of the empty series sets this text.
ErrorForNoRecords == "No records with timestamp and distance found to create a chart."

\* C21: the error reported for a file with no records at all differs from
\* the error reported for a file that has records of which none is usable:
\* after reading a file with records, none of them with a timestamp and a
\* distance, the error is not the one an empty file gets.
C21_NoRecordsToldFromUnusableRecords ==
    /\ (IsPresent(loaded) /\ Len(LoadedRecords) = 0) => error = ErrorForNoRecords
    /\ (IsPresent(loaded) /\ Len(LoadedRecords) > 0 /\ RetainedRecords = {})
           => error # ErrorForNoRecords


\* ------------------------------------------------------- the loading flag
\* C27: after any file drop the loading flag returns to false on every path
\* of the read and decode flow, the successful load included: whenever no
\* read is pending any more, the flag is false.
C27_LoadingFlagCleared == readers = <<>> => ~isLoading


\* ------------------------------------------------------ the fetching flag
\* C28: the fetching flag is true exactly while a DEM fetch run is active:
\* it is true in every state with a run in flight and false in every other
\* state, and the step that ends a run, whatever its requests answered,
\* leaves the flag false and the fetch button enabled.
C28_FetchingExactlyWhileRunActive ==
    /\ isFetchingDem <=> runs # <<>>
    /\ IsPresent(justFinished) => (~isFetchingDem /\ ~FetchButtonDisabled)

\* A run of which every request failed has just ended, after a run was seen
\* in flight: nothing is being fetched and the button is on screen, enabled.
C28_Witness ==
    /\ IsPresent(justFinished)
    /\ Val(justFinished).successfulFetches = 0
    /\ Len(Val(justFinished).points) >= 2
    /\ runs = <<>>
    /\ ~isFetchingDem
    /\ DemControlsRendered
    /\ ~FetchButtonDisabled


\* ------------------------------------------- session summary (SessionSpec)
\* The session message of the file whose reader the last step served.
LoadedSession == Val(loaded).file.sessionMesgs[1]

\* The rows on screen, in order.
Rows(isMetric) == Val(SessionTable(isMetric))

\* The positions of the colons of a text.
Colons(text) == {i \in 1..Len(text) : text[i] = ":"}

\* The number a character stands for, -1 when it is no digit.
DigitValue(c) ==
    IF \E v \in 0..9 : DigitChars[v + 1] = c
    THEN CHOOSE v \in 0..9 : DigitChars[v + 1] = c
    ELSE -1

RECURSIVE NumberOf(_)
\* The natural number written by a non-empty sequence of digits.
NumberOf(text) ==
    IF Len(text) = 1 THEN DigitValue(text[1])
    ELSE 10 * NumberOf(SubSeq(text, 1, Len(text) - 1)) + DigitValue(text[Len(text)])

\* A part of a duration text: digits alone, at least two of them, and no
\* leading zero beyond the second digit.
PaddedNumber(text) ==
    /\ Len(text) >= 2
    /\ \A i \in 1..Len(text) : DigitValue(text[i]) >= 0
    /\ Len(text) > 2 => text[1] # "0"

\* The text is hours:minutes:seconds of a duration of ms thousandths of a
\* second, cut to whole seconds.
IsDurationText(text, ms) ==
    /\ Cardinality(Colons(text)) = 2
    /\ LET c1 == CHOOSE i \in Colons(text) : \A j \in Colons(text) : i <= j
           c2 == CHOOSE i \in Colons(text) : \A j \in Colons(text) : i >= j
           hh == SubSeq(text, 1, c1 - 1)
           mm == SubSeq(text, c1 + 1, c2 - 1)
           ss == SubSeq(text, c2 + 1, Len(text))
       IN /\ PaddedNumber(hh) /\ PaddedNumber(mm) /\ PaddedNumber(ss)
          /\ Len(mm) = 2 /\ Len(ss) = 2
          /\ NumberOf(mm) \in 0..59
          /\ NumberOf(ss) \in 0..59
          /\ NumberOf(hh) * 3600 + NumberOf(mm) * 60 + NumberOf(ss) = ms \div 1000

\* C25: a duration of s >= 0 seconds is shown as HH:MM:SS, each part padded
\* with zeros to at least two digits, minutes and seconds within 0..59 and
\* hours * 3600 + minutes * 60 + seconds = floor(s); 17957 seconds is shown
\* as 04:59:17.  Stated of the elapsed-time and timer-time rows of the
\* session table, in both unit systems.
C25_DurationAsHoursMinutesSeconds ==
    IsPresent(sessionData) =>
        \A isMetric \in BOOLEAN :
            \A i \in 1..Len(Rows(isMetric)) :
                LET row == Rows(isMetric)[i]
                    raw == Val(sessionData)[row.key]
                IN (row.key \in {"totalElapsedTime", "totalTimerTime"} /\ raw.t = "number")
                      => /\ IsDurationText(row.value, raw.n)
                         /\ raw.n = 17957000
                               => row.value = <<"0", "4", ":", "5", "9", ":", "1", "7">>

\* The table shows 04:59:17 for an elapsed time of 17957 s next to a
\* timer time of 17000.5 s and a start time.
C25_Witness ==
    /\ IsPresent(loaded)
    /\ IsPresent(sessionData)
    /\ Val(sessionData)["totalElapsedTime"] = JsNum(17957000)
    /\ Val(sessionData)["totalTimerTime"] = JsNum(17000500)
    /\ \E i \in 1..Len(Rows(TRUE)) :
          /\ Rows(TRUE)[i].key = "totalElapsedTime"
          /\ Rows(TRUE)[i].value = <<"0", "4", ":", "5", "9", ":", "1", "7">>


\* The field is present in the source summary: neither undefined nor null.
PresentInSummary(key) == LoadedSession[key].t \notin {"undefined", "null"}

\* The place of a key in the field table.
TablePlace(key) == CHOOSE j \in 1..Len(DisplayKeys) : DisplayKeys[j] = key

\* C26: the session table has a row for exactly those fields of the field
\* table that are present (neither undefined nor null) in the session
\* message of the file, in the order of the field table and one row each; a
\* field that is missing or null has no row, and a field whose value is 0
\* has a row that shows a zero.
C26_RowsForPresentFieldsInTableOrder ==
    (IsPresent(loaded) /\ Len(Val(loaded).file.sessionMesgs) > 0) =>
        /\ IsPresent(sessionData)
        /\ \A isMetric \in BOOLEAN :
              LET rows == Rows(isMetric)
              IN /\ \A j \in 1..Len(DisplayKeys) :
                        PresentInSummary(DisplayKeys[j])
                            <=> \E i \in 1..Len(rows) : rows[i].key = DisplayKeys[j]
                 /\ \A i \in 1..Len(rows) :
                        \E j \in 1..Len(DisplayKeys) : rows[i].key = DisplayKeys[j]
                 /\ \A i, i2 \in 1..Len(rows) :
                        i < i2 => TablePlace(rows[i].key) < TablePlace(rows[i2].key)
                 /\ \A i \in 1..Len(rows) :
                        LoadedSession[rows[i].key] = JsNum(0)
                            => rows[i].value \in {<<"0">>, <<"0", ".", "0", "0">>,
                                                  <<"0", "0", ":", "0", "0", ":", "0", "0">>}

\* A session with a start time, a null elapsed time, a timer time, a
\* distance of 0 and a heart rate of 0 is on screen as four rows: start
\* time, timer time, distance and heart rate.
C26_Witness ==
    /\ IsPresent(loaded)
    /\ Len(Val(loaded).file.sessionMesgs) > 0
    /\ LoadedSession["totalElapsedTime"] = JsNull
    /\ LoadedSession["totalDistance"] = JsNum(0)
    /\ LoadedSession["avgHeartRate"] = JsNum(0)
    /\ IsPresent(sessionData)
    /\ Len(Rows(TRUE)) = 4
    /\ Rows(TRUE)[1].key = "startTime"
    /\ Rows(TRUE)[2].key = "totalTimerTime"
    /\ Rows(TRUE)[3].key = "totalDistance"
    /\ Rows(TRUE)[3].value = <<"0", ".", "0", "0">>
    /\ Rows(TRUE)[4].key = "avgHeartRate"
    /\ Rows(TRUE)[4].value = <<"0">>

====
